---- MODULE Spec2Model ----
(***************************************************************************)
(* Movies API (FastAPI + SQLAlchemy over SQLite): the role-based access    *)
(* rules of src/Movies.py over the tables of src/models.py.                *)
(*                                                                         *)
(* Tables.  users and movies are functions from the primary key to the row.*)
(* The primary keys are plain INTEGER PRIMARY KEY columns of SQLite (no    *)
(* AUTOINCREMENT clause is emitted), so a new row gets max(id) + 1 and the *)
(* id of a deleted last row is handed out again.  No handler ever reads    *)
(* MovieAssignment.id, so the movie_assignments table is the bag of its    *)
(* (movie_id, user_id, assigned_by) rows: two equal rows stay two rows.    *)
(* SQLite does not enforce the ForeignKey columns (database.py sets no     *)
(* PRAGMA foreign_keys), so only the ORM cascades of models.py remove      *)
(* dependent rows.                                                         *)
(*                                                                         *)
(* Identity.  A request carries the payload of a bearer token, the         *)
(* {role, user_id} pair that login read from the user's row when the token *)
(* was issued.  The handlers trust the payload and never look the user up  *)
(* again, so a token outlives changes to its user's row until it expires.  *)
(***************************************************************************)
EXTENDS Integers, FiniteSets, Sequences, Bags, TLC

\* Bounds of the model.
MaxUsers == 2
MaxMovies == 1
MaxTokens == 1

\* init_db.py seeds exactly these four roles.
Roles == {"super admin", "admin", "editor", "viewer"}

\* Role names a registration request may carry: the four seeded ones and
\* "user", the default of schemas.UserCreate.role, which is no seeded role.
RoleInputs == Roles \cup {"user"}

\* Usernames a request may carry (names are numbered).
Usernames == 1..MaxUsers

\* Bodies of schemas.MovieCreate; only year and rating are ever queried.
MovieData == {[year |-> 2000, rating |-> 5], [year |-> 2001, rating |-> 7]}

VARIABLES
    users,        \* table users: id -> [username, role]
    movies,       \* table movies: id -> [created_by, year, rating]
    assignments,  \* table movie_assignments: bag of [movie_id, user_id, assigned_by]
    tokens,       \* unexpired bearer tokens: set of [role, user_id]
    inflight,     \* create_movie requests between their two commits
    files,        \* table movie_files: id -> [movie_id, filetype, filepath]
    pending,      \* assign_movie requests between their lookup and their commit
    registering,  \* create_user requests between their lookup and their commit
    resp          \* the last request and its response

vars == <<users, movies, assignments, tokens, inflight, files, pending, registering, resp>>

----------------------------------------------------------------------------
\* Helpers

SetMax(S) == CHOOSE x \in S : \A y \in S : y <= x

\* The id SQLite gives the next row of a table whose live ids are ids.
NextId(ids) == IF ids = {} THEN 1 ELSE SetMax(ids) + 1

Payload(role, user_id) == [role |-> role, user_id |-> user_id]

Row(movie_id, user_id, assigned_by) ==
    [movie_id |-> movie_id, user_id |-> user_id, assigned_by |-> assigned_by]

\* Bag A cut down to its rows in S, with their multiplicities.
BagRestrict(A, S) == [r \in S |-> A[r]]

\* db.query(MovieAssignment).filter_by(movie_id=.., user_id=..): the rows
\* .first() may return (SQL fixes no order without ORDER BY).
AssignmentRows(A, movie_id, user_id) ==
    {r \in BagToSet(A) : r.movie_id = movie_id /\ r.user_id = user_id}

\* ... .first() is not None
has_assignment(A, movie_id, user_id) == AssignmentRows(A, movie_id, user_id) # {}

\* users joined with roles, filtered on the role name
UsersWithRole(U, names) == {u \in DOMAIN U : U[u].role \in names}

\* movie.creator is None: created_by names no row of users
creator_missing(U, M, movie_id) == M[movie_id].created_by \notin DOMAIN U

\* movie.creator.role_obj.name (only used when the creator exists)
creator_role(U, M, movie_id) == U[M[movie_id].created_by].role

Result(status, detail) == [status |-> status, detail |-> detail]

ServerError == Result(500, "Internal Server Error")

----------------------------------------------------------------------------
\* Authorization dependency

\* What a request carries: the X-API-Key header (missing, wrong or the
\* key), the bearer token (none, one jwt.decode rejects: bad signature or
\* past its exp claim, or one it accepts) and the payload of the token.
Credentials(api_key, bearer, payload) ==
    [api_key |-> api_key, bearer |-> bearer, payload |-> payload]

\* A request with no credentials at all.
NoCredentials == Credentials("missing", "none", Payload("none", 0))

\* authorize: the payload handed to the handler, or the error raised.
\* verify_token checks the signature and the exp claim and nothing else; the
\* payload is returned as it was signed.
authorize(cred) ==
    IF cred.api_key = "missing"
    THEN [result |-> Result(403, "Invalid or missing API key"), auth |-> Payload("none", 0)]
    ELSE IF cred.api_key = "wrong"
    THEN [result |-> Result(403, "Invalid API key"), auth |-> Payload("none", 0)]
    ELSE IF cred.bearer = "none"
    THEN [result |-> Result(401, "Missing or invalid bearer token"),
          auth |-> Payload("none", 0)]
    ELSE IF cred.bearer = "rejected"
    THEN [result |-> Result(401, "Invalid token"), auth |-> Payload("none", 0)]
    ELSE [result |-> Result(0, "pass"), auth |-> cred.payload]

----------------------------------------------------------------------------
\* Auth section

\* POST /auth/register
create_user(U, username, role) ==
    IF \E u \in DOMAIN U : U[u].username = username
    THEN [result |-> Result(400, "Username already exists"), users |-> U]
    ELSE IF role \notin Roles
    THEN [result |-> Result(400, "Invalid role"), users |-> U]
    ELSE [result |-> Result(201, "User created successfully"),
          users  |-> (NextId(DOMAIN U) :> [username |-> username, role |-> role]) @@ U]

\* create_user_insert on a table without the unique index on username.
create_user_insert_no_index(U, username, role) ==
    [result |-> Result(201, "User created successfully"),
     users  |-> (NextId(DOMAIN U) :> [username |-> username, role |-> role]) @@ U]

\* POST /auth/register from db.add(new_user) on.  users.username carries a
\* unique index (models.py line 8): the INSERT of a name that is there by now
\* fails at db.commit() and the request is answered 500.
create_user_insert(U, username, role) ==
    IF \E u \in DOMAIN U : U[u].username = username
    THEN [result |-> ServerError, users |-> U]
    ELSE [result |-> Result(201, "User created successfully"),
          users  |-> (NextId(DOMAIN U) :> [username |-> username, role |-> role]) @@ U]

\* POST /auth/token: the payload of the issued token, if any.  The password
\* check is the caller's knowledge of the password; a caller who does not
\* know it gets the same 401 as for an unknown username.
login(U, username) ==
    LET found == {u \in DOMAIN U : U[u].username = username}
    IN  IF found = {}
        THEN [result |-> Result(401, "Invalid credentials"), issued |-> {}]
        ELSE [result |-> Result(200, "bearer"),
              issued |-> {Payload(U[u].role, u) : u \in found}]

----------------------------------------------------------------------------
\* Users section

\* GET /users/: the ids of the users returned
get_all_users(U, auth) ==
    IF auth.role = "viewer"
    THEN {u \in DOMAIN U : U[u].role = "viewer" /\ u = auth.user_id}
    ELSE IF auth.role = "editor"
    THEN {u \in DOMAIN U : U[u].role \in {"viewer", "editor"}}
    ELSE IF auth.role = "admin"
    THEN {u \in DOMAIN U : U[u].role # "super admin"}
    ELSE DOMAIN U

\* GET /users/{user_id}
get_user_by_id(U, auth, user_id) ==
    IF user_id \notin DOMAIN U
    THEN [result |-> Result(404, "User not found"), body |-> {}]
    ELSE IF auth.role = "viewer" /\ U[user_id].role # "viewer"
    THEN [result |-> Result(403, "Forbidden insufficient permission"), body |-> {}]
    ELSE IF auth.role = "editor" /\ U[user_id].role \notin {"viewer", "editor"}
    THEN [result |-> Result(403, "Forbidden insufficient permission"), body |-> {}]
    ELSE IF auth.role = "admin" /\ U[user_id].role = "super admin"
    THEN [result |-> Result(403, "Forbidden insufficient permission"), body |-> {}]
    ELSE [result |-> Result(200, "OK"), body |-> {user_id}]

\* What a schemas.UserUpdate body may set: each field is a value or Unset.
Unset == "unset"
UserUpdates == [username : Usernames \cup {0}, role : {Unset, "admin"}]

\* update_user on a Users class whose role attribute can be assigned.
update_user_writing_role(U, auth, user_id, upd) ==
    IF auth.role \notin {"super admin", "admin"}
    THEN [result |-> Result(403, "Forbidden"), users |-> U]
    ELSE IF user_id \notin DOMAIN U
    THEN [result |-> Result(404, "User not found"), users |-> U]
    ELSE IF auth.role = "admin" /\ U[user_id].role = "super admin"
    THEN [result |-> Result(403, "Forbidden"), users |-> U]
    ELSE IF upd.role # Unset
    THEN [result |-> Result(200, "OK"), users |-> [U EXCEPT ![user_id].role = upd.role]]
    ELSE IF upd.username = 0
    THEN [result |-> Result(200, "OK"), users |-> U]
    ELSE IF \E u \in DOMAIN U \ {user_id} : U[u].username = upd.username
    THEN [result |-> ServerError, users |-> U]
    ELSE [result |-> Result(200, "OK"),
          users  |-> [U EXCEPT ![user_id].username = upd.username]]

\* PUT /users/{user_id}.  Users.role is a read-only property, so setattr
\* raises when the body sets role; a username already in use violates the
\* unique index at commit.  Either way the session is never committed.
update_user(U, auth, user_id, upd) ==
    IF auth.role \notin {"super admin", "admin"}
    THEN [result |-> Result(403, "Forbidden"), users |-> U]
    ELSE IF user_id \notin DOMAIN U
    THEN [result |-> Result(404, "User not found"), users |-> U]
    ELSE IF auth.role = "admin" /\ U[user_id].role = "super admin"
    THEN [result |-> Result(403, "Forbidden"), users |-> U]
    ELSE IF upd.role # Unset
    THEN [result |-> ServerError, users |-> U]
    ELSE IF upd.username = 0
    THEN [result |-> Result(200, "OK"), users |-> U]
    ELSE IF \E u \in DOMAIN U \ {user_id} : U[u].username = upd.username
    THEN [result |-> ServerError, users |-> U]
    ELSE [result |-> Result(200, "OK"),
          users  |-> [U EXCEPT ![user_id].username = upd.username]]

\* Users without the cascade on movie_assignments: the rows the user made
\* are removed, the rows in which the user is the assignee stay.
user_cascade_made_only(A, user_id) ==
    BagRestrict(A, {r \in BagToSet(A) : r.assigned_by # user_id})

\* The ORM cascades of Users.movie_assignments and Users.assignments_made
\* (cascade="all, delete-orphan"): the rows in which the user is the assignee
\* and the rows the user made.
user_cascade(A, user_id) ==
    BagRestrict(A, {r \in BagToSet(A) : r.user_id # user_id /\ r.assigned_by # user_id})

\* delete_user without the check that keeps an admin from a super admin.
delete_user_any_target(U, A, auth, user_id) ==
    IF auth.role \notin {"super admin", "admin"}
    THEN [result |-> Result(403, "Forbidden"), users |-> U, assignments |-> A]
    ELSE IF user_id \notin DOMAIN U
    THEN [result |-> Result(404, "User not found"), users |-> U, assignments |-> A]
    ELSE [result      |-> Result(204, "No Content"),
          users       |-> [u \in DOMAIN U \ {user_id} |-> U[u]],
          assignments |-> user_cascade(A, user_id)]

\* DELETE /users/{user_id}
delete_user(U, A, auth, user_id) ==
    IF auth.role \notin {"super admin", "admin"}
    THEN [result |-> Result(403, "Forbidden"), users |-> U, assignments |-> A]
    ELSE IF user_id \notin DOMAIN U
    THEN [result |-> Result(404, "User not found"), users |-> U, assignments |-> A]
    ELSE IF auth.role = "admin" /\ U[user_id].role = "super admin"
    THEN [result |-> Result(403, "Forbidden"), users |-> U, assignments |-> A]
    ELSE [result      |-> Result(204, "No Content"),
          users       |-> [u \in DOMAIN U \ {user_id} |-> U[u]],
          assignments |-> user_cascade(A, user_id)]

----------------------------------------------------------------------------
\* Movies section

NewMovie(auth, data) ==
    [created_by |-> auth.user_id, year |-> data.year, rating |-> data.rating]

\* create_movie up to its first commit: the movie row.
create_movie_insert(M, auth, data) ==
    (NextId(DOMAIN M) :> NewMovie(auth, data)) @@ M

\* auto_assign_users taking the admins too whatever the creator's role.
auto_assign_users_any_creator(U, auth) ==
    UsersWithRole(U, {"admin", "super admin"})

\* The users create_movie auto-assigns the new movie to.
auto_assign_users(U, auth) ==
    IF auth.role = "super admin"
    THEN UsersWithRole(U, {"super admin"})
    ELSE UsersWithRole(U, {"admin", "super admin"})

\* create_movie from its first commit to its second: the auto-assignments.
create_movie_assign(U, A, auth, movie_id) ==
    A (+) SetToBag({Row(movie_id, u, auth.user_id) : u \in auto_assign_users(U, auth)})

\* POST /movies/create, run without interruption
create_movie(U, M, A, auth, data) ==
    IF auth.role \notin {"super admin", "admin"}
    THEN [result |-> Result(403, "Forbidden Insufficient permission"),
          movies |-> M, assignments |-> A, body |-> {}]
    ELSE [result      |-> Result(201, "Created"),
          movies      |-> create_movie_insert(M, auth, data),
          assignments |-> create_movie_assign(U, A, auth, NextId(DOMAIN M)),
          body        |-> {NextId(DOMAIN M)}]

\* get_all_movies with the query for the requester's assignments not
\* filtered on the requester.
get_all_movies_any_assignee(U, M, A, auth) ==
    IF auth.role \in {"viewer", "editor"}
    THEN LET movie_ids == {r.movie_id : r \in BagToSet(A)}
         IN  {m \in DOMAIN M : m \in movie_ids}
    ELSE IF auth.role = "admin"
    THEN LET movie_ids == {r.movie_id : r \in BagToSet(A)}
             admin_user_ids == UsersWithRole(U, {"admin"})
         IN  {m \in DOMAIN M : M[m].created_by \in admin_user_ids \/ m \in movie_ids}
    ELSE DOMAIN M

\* GET /movies/: the ids of the movies returned
get_all_movies(U, M, A, auth) ==
    IF auth.role \in {"viewer", "editor"}
    THEN LET movie_ids == {r.movie_id : r \in {x \in BagToSet(A) : x.user_id = auth.user_id}}
         IN  {m \in DOMAIN M : m \in movie_ids}
    ELSE IF auth.role = "admin"
    THEN LET movie_ids == {r.movie_id : r \in {x \in BagToSet(A) : x.user_id = auth.user_id}}
             admin_user_ids == UsersWithRole(U, {"admin"})
         IN  {m \in DOMAIN M : M[m].created_by \in admin_user_ids \/ m \in movie_ids}
    ELSE DOMAIN M

\* GET /movies/user-assignments up to query.all(): the rows selected.  The
\* inner joins drop a row whose user or movie is gone.
get_user_assignments_query(U, M, A, auth) ==
    LET joined == {r \in BagToSet(A) : r.user_id \in DOMAIN U /\ r.movie_id \in DOMAIN M}
    IN  IF auth.role = "viewer"
        THEN {r \in joined : U[r.user_id].role = "viewer"}
        ELSE IF auth.role = "editor"
        THEN {r \in joined : U[r.user_id].role = "editor"}
        ELSE IF auth.role = "admin"
        THEN {r \in joined : \/ U[r.user_id].role # "super admin"
                              \/ M[r.movie_id].created_by = auth.user_id
                              \/ r.assigned_by = auth.user_id}
        ELSE joined

\* GET /movies/user-assignments.  Each entry of the result is built with the
\* key "username", while response_model=list[schemas.UserAssignmentOut]
\* requires user_name: validating a non-empty result fails and the request is
\* answered 500.
get_user_assignments(U, M, A, auth) ==
    IF get_user_assignments_query(U, M, A, auth) = {}
    THEN [result |-> Result(200, "OK"), body |-> {}]
    ELSE [result |-> ServerError, body |-> {}]

\* GET /movies/{movie_id}
get_one_movie(M, auth, movie_id) ==
    IF movie_id \notin DOMAIN M
    THEN [result |-> Result(404, "Movie not found"), body |-> {}]
    ELSE [result |-> Result(200, "OK"), body |-> {movie_id}]

\* GET /movies/year/{movie_year}
get_movie_by_year(M, auth, movie_year) ==
    LET found == {m \in DOMAIN M : M[m].year = movie_year}
    IN  IF found = {}
        THEN [result |-> Result(404, "No movies found for year"), body |-> {}]
        ELSE [result |-> Result(200, "OK"), body |-> found]

\* GET /movies/rating/{movie_rating}
get_movie_by_rating(M, auth, movie_rating) ==
    LET found == {m \in DOMAIN M : M[m].rating = movie_rating}
    IN  IF found = {}
        THEN [result |-> Result(404, "No movies found for rating"), body |-> {}]
        ELSE [result |-> Result(200, "OK"), body |-> found]

\* The value assign_movie_authorize gives a request it lets through.
Pass == Result(0, "pass")

\* POST /movies/assign up to the lookup of the pair: the role check, the
\* lookups of the movie and the user, and the check of an admin's own
\* assignment on a super admin's movie.
assign_movie_authorize(U, M, A, auth, movie_id, user_id) ==
    IF auth.role \notin {"super admin", "admin"}
    THEN Result(403, "Forbidden insufficient permission")
    ELSE IF movie_id \notin DOMAIN M
    THEN Result(404, "Movie not found")
    ELSE IF user_id \notin DOMAIN U
    THEN Result(404, "User not found")
    ELSE IF auth.role = "admin" /\ creator_missing(U, M, movie_id)
    THEN ServerError
    ELSE IF /\ auth.role = "admin"
            /\ creator_role(U, M, movie_id) = "super admin"
            /\ ~has_assignment(A, movie_id, auth.user_id)
    THEN Result(403, "Forbidden insufficient permission")
    ELSE Pass

\* assign_movie_apply recording the target user as assigned_by.
assign_movie_apply_by_target(A, auth, movie_id, user_id, is_assigned, first) ==
    IF is_assigned
    THEN IF has_assignment(A, movie_id, user_id)
         THEN [result |-> Result(400, "Movie already assigned to user"), assignments |-> A]
         ELSE [result      |-> Result(201, "Movie assigned to user successfully"),
               assignments |-> A (+) SetToBag({Row(movie_id, user_id, user_id)})]
    ELSE IF ~has_assignment(A, movie_id, user_id)
         THEN [result |-> Result(400, "Movie not assigned to user"), assignments |-> A]
         ELSE [result      |-> Result(201, "Movie unassigned from user successfully"),
               assignments |-> A (-) SetToBag({first})]

\* assign_movie_apply answering an unassign of an absent pair with success.
assign_movie_apply_silent(A, auth, movie_id, user_id, is_assigned, first) ==
    IF is_assigned
    THEN IF has_assignment(A, movie_id, user_id)
         THEN [result |-> Result(400, "Movie already assigned to user"), assignments |-> A]
         ELSE [result      |-> Result(201, "Movie assigned to user successfully"),
               assignments |-> A (+) SetToBag({Row(movie_id, user_id, auth.user_id)})]
    ELSE [result      |-> Result(201, "Movie unassigned from user successfully"),
          assignments |-> A (-) SetToBag({first})]

\* assign_movie_apply without the lookup of an existing row for the pair.
assign_movie_apply_unchecked(A, auth, movie_id, user_id, is_assigned, first) ==
    IF is_assigned
    THEN [result      |-> Result(201, "Movie assigned to user successfully"),
          assignments |-> A (+) SetToBag({Row(movie_id, user_id, auth.user_id)})]
    ELSE IF ~has_assignment(A, movie_id, user_id)
         THEN [result |-> Result(400, "Movie not assigned to user"), assignments |-> A]
         ELSE [result      |-> Result(201, "Movie unassigned from user successfully"),
               assignments |-> A (-) SetToBag({first})]

\* POST /movies/assign from the lookup of the pair on.  first is the row
\* .first() returned for the pair; it is only used when such a row exists.
assign_movie_apply(A, auth, movie_id, user_id, is_assigned, first) ==
    IF is_assigned
    THEN IF has_assignment(A, movie_id, user_id)
         THEN [result |-> Result(400, "Movie already assigned to user"), assignments |-> A]
         ELSE [result      |-> Result(201, "Movie assigned to user successfully"),
               assignments |-> A (+) SetToBag({Row(movie_id, user_id, auth.user_id)})]
    ELSE IF ~has_assignment(A, movie_id, user_id)
         THEN [result |-> Result(400, "Movie not assigned to user"), assignments |-> A]
         ELSE [result      |-> Result(201, "Movie unassigned from user successfully"),
               assignments |-> A (-) SetToBag({first})]

\* POST /movies/assign
assign_movie(U, M, A, auth, movie_id, user_id, is_assigned, first) ==
    IF assign_movie_authorize(U, M, A, auth, movie_id, user_id) # Pass
    THEN [result      |-> assign_movie_authorize(U, M, A, auth, movie_id, user_id),
          assignments |-> A]
    ELSE assign_movie_apply(A, auth, movie_id, user_id, is_assigned, first)

\* PUT /movies/update/{movie_id}
update_movie(U, M, A, auth, movie_id, data) ==
    IF movie_id \notin DOMAIN M
    THEN [result |-> Result(404, "Movie not found"), movies |-> M]
    ELSE IF auth.role = "admin"
    THEN IF creator_missing(U, M, movie_id)
         THEN [result |-> ServerError, movies |-> M]
         ELSE IF /\ creator_role(U, M, movie_id) = "super admin"
                 /\ ~has_assignment(A, movie_id, auth.user_id)
         THEN [result |-> Result(403, "Forbidden insufficient permission"), movies |-> M]
         ELSE [result |-> Result(200, "OK"),
               movies |-> [M EXCEPT ![movie_id].year = data.year,
                                    ![movie_id].rating = data.rating]]
    ELSE IF auth.role = "super admin"
    THEN [result |-> Result(200, "OK"),
          movies |-> [M EXCEPT ![movie_id].year = data.year,
                               ![movie_id].rating = data.rating]]
    ELSE [result |-> Result(403, "Forbidden insufficient permission"), movies |-> M]

\* The ORM cascade of Movie.assignments (cascade="all, delete-orphan").
movie_cascade(A, movie_id) ==
    BagRestrict(A, {r \in BagToSet(A) : r.movie_id # movie_id})

\* delete_movie turning an admin away from every movie of a super admin,
\* assigned or not.
delete_movie_ignoring_assignment(U, M, A, auth, movie_id) ==
    IF movie_id \notin DOMAIN M
    THEN [result |-> Result(404, "Movie not found"), movies |-> M, assignments |-> A]
    ELSE IF auth.role = "admin"
    THEN IF creator_missing(U, M, movie_id)
         THEN [result |-> ServerError, movies |-> M, assignments |-> A]
         ELSE IF creator_role(U, M, movie_id) = "super admin"
         THEN [result |-> Result(403, "Forbidden insufficient permission"),
               movies |-> M, assignments |-> A]
         ELSE [result      |-> Result(204, "No Content"),
               movies      |-> [m \in DOMAIN M \ {movie_id} |-> M[m]],
               assignments |-> movie_cascade(A, movie_id)]
    ELSE IF auth.role = "super admin"
    THEN [result      |-> Result(204, "No Content"),
          movies      |-> [m \in DOMAIN M \ {movie_id} |-> M[m]],
          assignments |-> movie_cascade(A, movie_id)]
    ELSE [result |-> Result(403, "Forbidden insufficient permission"),
          movies |-> M, assignments |-> A]

\* DELETE /movies/{movie_id}
delete_movie(U, M, A, auth, movie_id) ==
    IF movie_id \notin DOMAIN M
    THEN [result |-> Result(404, "Movie not found"), movies |-> M, assignments |-> A]
    ELSE IF auth.role = "admin"
    THEN IF creator_missing(U, M, movie_id)
         THEN [result |-> ServerError, movies |-> M, assignments |-> A]
         ELSE IF /\ creator_role(U, M, movie_id) = "super admin"
                 /\ ~has_assignment(A, movie_id, auth.user_id)
         THEN [result |-> Result(403, "Forbidden insufficient permission"),
               movies |-> M, assignments |-> A]
         ELSE [result      |-> Result(204, "No Content"),
               movies      |-> [m \in DOMAIN M \ {movie_id} |-> M[m]],
               assignments |-> movie_cascade(A, movie_id)]
    ELSE IF auth.role = "super admin"
    THEN [result      |-> Result(204, "No Content"),
          movies      |-> [m \in DOMAIN M \ {movie_id} |-> M[m]],
          assignments |-> movie_cascade(A, movie_id)]
    ELSE [result |-> Result(403, "Forbidden insufficient permission"),
          movies |-> M, assignments |-> A]

----------------------------------------------------------------------------
\* Files section.  A row of movie_files is kept as [movie_id, filetype,
\* filepath]; no handler reads uploaded_by or source unless asked to filter
\* on it.  An upload writes the bytes to uploads/<filename> and stores the
\* absolute form of that path; file names are taken distinct per row, so the
\* bytes of a row are on disk for as long as the row exists.

ALLOWED_IMAGE_EXTENSIONS == {".jpg", ".jpeg", ".png"}
ALLOWED_DOCUMENT_EXTENSIONS == {".pdf", ".txt", ".ppt", ".pptx", ".doc", ".docx", ".xls"}

\* The lower-cased extensions of the file names sent.
Extensions == {".png", ".bmp", ".pdf"}

\* What an upload whose file part has a Content-Type header carries: whether
\* the content type starts with "image/", and the extension of its file name.
Uploads == [typed : {TRUE}, image : BOOLEAN, ext : Extensions]

\* Every file part a request can send: file.content_type is None for a part
\* without a Content-Type header.
UploadParts == Uploads \cup [typed : {FALSE}, image : {FALSE}, ext : Extensions]

\* The creator check the four handlers run for an admin on a movie.
file_admin_check(U, M, A, auth, movie_id, detail) ==
    IF creator_missing(U, M, movie_id)
    THEN ServerError
    ELSE IF /\ creator_role(U, M, movie_id) = "super admin"
            /\ ~has_assignment(A, movie_id, auth.user_id)
    THEN Result(403, detail)
    ELSE Pass

\* POST /files/movies/{movie_id}/upload up to the check of the extension
upload_movie_files_authorize(U, M, A, auth, movie_id) ==
    IF movie_id \notin DOMAIN M
    THEN Result(404, "Movie not found")
    ELSE IF auth.role = "viewer"
    THEN Result(403, "Forbidden: insufficient permission")
    ELSE IF auth.role = "admin"
    THEN file_admin_check(U, M, A, auth, movie_id, "Forbidden: project not assigned")
    ELSE IF auth.role = "editor" /\ ~has_assignment(A, movie_id, auth.user_id)
    THEN Result(403, "Forbidden: project not assigned")
    ELSE Pass

\* POST /files/movies/{movie_id}/upload.  file.content_type.startswith raises
\* on a part without a content type (None): the request is answered 500.
upload_movie_files(U, M, A, F, auth, movie_id, file) ==
    IF upload_movie_files_authorize(U, M, A, auth, movie_id) # Pass
    THEN [result |-> upload_movie_files_authorize(U, M, A, auth, movie_id),
          files |-> F, body |-> {}]
    ELSE IF ~file.typed
    THEN [result |-> ServerError, files |-> F, body |-> {}]
    ELSE IF file.image /\ file.ext \notin ALLOWED_IMAGE_EXTENSIONS
    THEN [result |-> Result(400, "Invalid image file type"), files |-> F, body |-> {}]
    ELSE IF ~file.image /\ file.ext \notin ALLOWED_DOCUMENT_EXTENSIONS
    THEN [result |-> Result(400, "Invalid document file type"), files |-> F, body |-> {}]
    ELSE [result |-> Result(201, "Created"),
          files  |-> (NextId(DOMAIN F) :>
                         [movie_id |-> movie_id,
                          filetype |-> IF file.image THEN "images" ELSE "documents",
                          filepath |-> "absolute"]) @@ F,
          body   |-> {NextId(DOMAIN F)}]

\* GET /files/movies/{movie_id}/files: the ids of the file rows returned
get_movie_files(U, M, A, F, auth, movie_id) ==
    IF movie_id \notin DOMAIN M
    THEN [result |-> Result(404, "Movie not found"), body |-> {}]
    ELSE IF auth.role = "viewer" /\ ~has_assignment(A, movie_id, auth.user_id)
    THEN [result |-> Result(403, "Forbidden insufficient permission project not assigned"),
          body |-> {}]
    ELSE IF /\ auth.role = "admin"
            /\ file_admin_check(U, M, A, auth, movie_id,
                                "Admin cannot view files of super admin's movie") # Pass
    THEN [result |-> file_admin_check(U, M, A, auth, movie_id,
                                      "Admin cannot view files of super admin's movie"),
          body |-> {}]
    ELSE [result |-> Result(200, "OK"),
          body   |-> {f \in DOMAIN F : F[f].movie_id = movie_id}]

\* DELETE /files/{file_id}
delete_movie_file(U, M, A, F, auth, file_id) ==
    IF file_id \notin DOMAIN F
    THEN [result |-> Result(404, "File not found"), files |-> F]
    ELSE IF F[file_id].movie_id \notin DOMAIN M
    THEN [result |-> Result(404, "Associated movie not found"), files |-> F]
    ELSE IF auth.role = "viewer"
    THEN [result |-> Result(403, "Forbidden insufficient permission"), files |-> F]
    ELSE IF /\ auth.role = "admin"
            /\ file_admin_check(U, M, A, auth, F[file_id].movie_id,
                                "Admin cannot delete files of super admin's movie") # Pass
    THEN [result |-> file_admin_check(U, M, A, auth, F[file_id].movie_id,
                                      "Admin cannot delete files of super admin's movie"),
          files |-> F]
    ELSE IF auth.role = "editor" /\ ~has_assignment(A, F[file_id].movie_id, auth.user_id)
    THEN [result |-> Result(403, "Editor can delete files only of assigned movies"),
          files |-> F]
    ELSE [result |-> Result(204, "No Content"),
          files  |-> [f \in DOMAIN F \ {file_id} |-> F[f]]]

\* FileResponse(path=movie_file.filepath): sending a file that is not at the
\* stored path raises, and the request is answered 500.
file_response(F, file_id) ==
    IF F[file_id].filepath = "moved" THEN ServerError ELSE Result(200, "OK")

\* GET /files/download/{file_id}.  The handler does not test the movie it
\* looked up: for a viewer, an admin or an editor it reads movie.id or
\* movie.creator of None when the file's movie is gone.
download_movie_file(U, M, A, F, auth, file_id) ==
    IF file_id \notin DOMAIN F
    THEN Result(404, "File not found")
    ELSE IF auth.role \in {"viewer", "admin", "editor"} /\ F[file_id].movie_id \notin DOMAIN M
    THEN ServerError
    ELSE IF auth.role = "viewer" /\ ~has_assignment(A, F[file_id].movie_id, auth.user_id)
    THEN Result(403, "project not assigned")
    ELSE IF auth.role = "admin"
    THEN IF file_admin_check(U, M, A, auth, F[file_id].movie_id,
                             "Admin cannot download files of super admin's movie") # Pass
         THEN file_admin_check(U, M, A, auth, F[file_id].movie_id,
                               "Admin cannot download files of super admin's movie")
         ELSE file_response(F, file_id)
    ELSE IF auth.role = "editor" /\ ~has_assignment(A, F[file_id].movie_id, auth.user_id)
    THEN Result(403, "Editor can download files only of assigned movies")
    ELSE file_response(F, file_id)

\* The stored path of a row is one of: "absolute", the absolute path
\* upload_movie_files computed, under the directory the service runs in;
\* "moved", such a path under a directory the service no longer runs in (the
\* file is at uploads/<filename> of the current one); "uploads", the relative
\* path uploads/<filename>.
fix_path(row) ==
    IF row.filepath = "moved" THEN [row EXCEPT !.filepath = "uploads"] ELSE row

\* GET /files/images/{file_id}: no Depends(authorize).  A row whose stored
\* path does not exist while uploads/<filename> does is rewritten and
\* committed before the image is served.
get_image_file(F, file_id) ==
    IF file_id \notin DOMAIN F
    THEN [result |-> Result(404, "File not found in database"), files |-> F, body |-> {}]
    ELSE IF F[file_id].filetype # "images"
    THEN [result |-> Result(404, "Not an image file"), files |-> F, body |-> {}]
    ELSE [result |-> Result(200, "OK"),
          files  |-> [F EXCEPT ![file_id] = fix_path(F[file_id])],
          body   |-> {file_id}]

\* GET /files/debug/files: no Depends(authorize); every row is returned.
debug_files(F) ==
    [result |-> Result(200, "OK"), files |-> F, body |-> DOMAIN F]

\* POST /files/fix-file-paths: no Depends(authorize); every row whose stored
\* path does not exist while uploads/<filename> does is rewritten.
fix_file_paths(F) ==
    [result |-> Result(200, "Fixed file paths"),
     files  |-> [f \in DOMAIN F |-> fix_path(F[f])],
     body   |-> {}]

----------------------------------------------------------------------------
\* The requests.  A request is one step: the handler runs from its first
\* line to its response.  resp records the request the last step answered
\* and what came back.

NoAuth == Payload("none", 0)

Response(op, auth, movie_id, user_id, result, body) ==
    [op |-> op, role |-> auth.role, uid |-> auth.user_id, movie_id |-> movie_id,
     user_id |-> user_id, status |-> result.status, detail |-> result.detail,
     body |-> body]

MovieIds == 1..MaxMovies
UserIds == 1..MaxUsers

\* The value of resp after a step that answered no request.
NoRequest == Response("none", NoAuth, 0, 0, Result(0, "none"), {})

Init ==
    /\ users = <<>>
    /\ movies = <<>>
    /\ assignments = EmptyBag
    /\ tokens = {}
    /\ inflight = {}
    /\ files = <<>>
    /\ pending = EmptyBag
    /\ registering = EmptyBag
    /\ resp = NoRequest

Register(username, role) ==
    LET r == create_user(users, username, role)
    IN  /\ DOMAIN r.users \subseteq UserIds
        /\ users' = r.users
        /\ resp' = Response("create_user", NoAuth, 0, 0, r.result, {})
        /\ UNCHANGED <<movies, assignments, tokens, inflight, files, pending, registering>>

Login(username) ==
    LET r == login(users, username)
    IN  /\ Cardinality(tokens \cup r.issued) <= MaxTokens
        /\ tokens' = tokens \cup r.issued
        /\ resp' = Response("login", NoAuth, 0, 0, r.result, {})
        /\ UNCHANGED <<users, movies, assignments, inflight, files, pending, registering>>

\* A token reaches its exp claim (security.ACCESS_TOKEN_EXPIRE_MINUTES).
Expire(auth) ==
    /\ auth \in tokens
    /\ tokens' = tokens \ {auth}
    /\ resp' = NoRequest
    /\ UNCHANGED <<users, movies, assignments, inflight, files, pending, registering>>

GetAllUsers(auth) ==
    /\ auth \in tokens
    /\ resp' = Response("get_all_users", auth, 0, 0, Result(200, "OK"),
                        get_all_users(users, auth))
    /\ UNCHANGED <<users, movies, assignments, tokens, inflight, files, pending, registering>>

GetUserById(auth, user_id) ==
    LET r == get_user_by_id(users, auth, user_id)
    IN  /\ auth \in tokens
        /\ resp' = Response("get_user_by_id", auth, 0, user_id, r.result, r.body)
        /\ UNCHANGED <<users, movies, assignments, tokens, inflight, files, pending, registering>>

UpdateUser(auth, user_id, upd) ==
    LET r == update_user(users, auth, user_id, upd)
    IN  /\ auth \in tokens
        /\ users' = r.users
        /\ resp' = Response("update_user", auth, 0, user_id, r.result, {})
        /\ UNCHANGED <<movies, assignments, tokens, inflight, files, pending, registering>>

DeleteUser(auth, user_id) ==
    LET r == delete_user(users, assignments, auth, user_id)
    IN  /\ auth \in tokens
        /\ users' = r.users
        /\ assignments' = r.assignments
        /\ resp' = Response("delete_user", auth, 0, user_id, r.result, {})
        /\ UNCHANGED <<movies, tokens, inflight, files, pending, registering>>

CreateMovie(auth, data) ==
    LET r == create_movie(users, movies, assignments, auth, data)
    IN  /\ auth \in tokens
        /\ DOMAIN r.movies \subseteq MovieIds
        /\ movies' = r.movies
        /\ assignments' = r.assignments
        /\ resp' = Response("create_movie", auth, 0, 0, r.result, r.body)
        /\ UNCHANGED <<users, tokens, inflight, files, pending, registering>>

GetAllMovies(auth) ==
    /\ auth \in tokens
    /\ resp' = Response("get_all_movies", auth, 0, 0, Result(200, "OK"),
                        get_all_movies(users, movies, assignments, auth))
    /\ UNCHANGED <<users, movies, assignments, tokens, inflight, files, pending, registering>>

GetUserAssignments(auth) ==
    LET r == get_user_assignments(users, movies, assignments, auth)
    IN  /\ auth \in tokens
        /\ resp' = Response("get_user_assignments", auth, 0, 0, r.result, r.body)
        /\ UNCHANGED <<users, movies, assignments, tokens, inflight, files, pending, registering>>

GetOneMovie(auth, movie_id) ==
    LET r == get_one_movie(movies, auth, movie_id)
    IN  /\ auth \in tokens
        /\ resp' = Response("get_one_movie", auth, movie_id, 0, r.result, r.body)
        /\ UNCHANGED <<users, movies, assignments, tokens, inflight, files, pending, registering>>

GetMovieByYear(auth, data) ==
    LET r == get_movie_by_year(movies, auth, data.year)
    IN  /\ auth \in tokens
        /\ resp' = Response("get_movie_by_year", auth, 0, 0, r.result, r.body)
        /\ UNCHANGED <<users, movies, assignments, tokens, inflight, files, pending, registering>>

GetMovieByRating(auth, data) ==
    LET r == get_movie_by_rating(movies, auth, data.rating)
    IN  /\ auth \in tokens
        /\ resp' = Response("get_movie_by_rating", auth, 0, 0, r.result, r.body)
        /\ UNCHANGED <<users, movies, assignments, tokens, inflight, files, pending, registering>>

\* The rows .first() may hand to assign_movie; any row when there is none.
FirstRows(A, movie_id, user_id) ==
    IF has_assignment(A, movie_id, user_id)
    THEN AssignmentRows(A, movie_id, user_id)
    ELSE {Row(movie_id, user_id, 0)}

AssignMovie(auth, movie_id, user_id, is_assigned) ==
    \E first \in FirstRows(assignments, movie_id, user_id) :
        LET r == assign_movie(users, movies, assignments, auth,
                              movie_id, user_id, is_assigned, first)
        IN  /\ auth \in tokens
            /\ assignments' = r.assignments
            /\ resp' = Response(IF is_assigned THEN "assign" ELSE "unassign",
                                auth, movie_id, user_id, r.result, {})
            /\ UNCHANGED <<users, movies, tokens, inflight, files, pending, registering>>

UpdateMovie(auth, movie_id, data) ==
    LET r == update_movie(users, movies, assignments, auth, movie_id, data)
    IN  /\ auth \in tokens
        /\ movies' = r.movies
        /\ resp' = Response("update_movie", auth, movie_id, 0, r.result, {})
        /\ UNCHANGED <<users, assignments, tokens, inflight, files, pending, registering>>

DeleteMovie(auth, movie_id) ==
    LET r == delete_movie(users, movies, assignments, auth, movie_id)
    IN  /\ auth \in tokens
        /\ movies' = r.movies
        /\ assignments' = r.assignments
        /\ resp' = Response("delete_movie", auth, movie_id, 0, r.result, {})
        /\ UNCHANGED <<users, tokens, inflight, files, pending, registering>>

MaxFiles == 1
FileIds == 1..MaxFiles

\* The movie a file row names; 0 when there is no such row.
movie_of(F, file_id) == IF file_id \in DOMAIN F THEN F[file_id].movie_id ELSE 0

UploadMovieFiles(auth, movie_id, file) ==
    LET r == upload_movie_files(users, movies, assignments, files, auth, movie_id, file)
    IN  /\ auth \in tokens
        /\ DOMAIN r.files \subseteq FileIds
        /\ files' = r.files
        /\ resp' = Response("upload_movie_files", auth, movie_id, 0, r.result, r.body)
        /\ UNCHANGED <<users, movies, assignments, tokens, inflight, pending, registering>>

GetMovieFiles(auth, movie_id) ==
    LET r == get_movie_files(users, movies, assignments, files, auth, movie_id)
    IN  /\ auth \in tokens
        /\ resp' = Response("get_movie_files", auth, movie_id, 0, r.result, r.body)
        /\ UNCHANGED <<users, movies, assignments, tokens, inflight, files, pending, registering>>

DeleteMovieFile(auth, file_id) ==
    LET r == delete_movie_file(users, movies, assignments, files, auth, file_id)
    IN  /\ auth \in tokens
        /\ files' = r.files
        /\ resp' = Response("delete_movie_file", auth, movie_of(files, file_id), 0,
                            r.result, {file_id})
        /\ UNCHANGED <<users, movies, assignments, tokens, inflight, pending, registering>>

DownloadMovieFile(auth, file_id) ==
    LET r == download_movie_file(users, movies, assignments, files, auth, file_id)
    IN  /\ auth \in tokens
        /\ resp' = Response("download_movie_file", auth, movie_of(files, file_id), 0,
                            r, {file_id})
        /\ UNCHANGED <<users, movies, assignments, tokens, inflight, files, pending, registering>>

GetImageFile(file_id) ==
    LET r == get_image_file(files, file_id)
    IN  /\ files' = r.files
        /\ resp' = Response("get_image_file", NoAuth, movie_of(files, file_id), 0,
                            r.result, r.body)
        /\ UNCHANGED <<users, movies, assignments, tokens, inflight, pending, registering>>

DebugFiles ==
    LET r == debug_files(files)
    IN  /\ files' = r.files
        /\ resp' = Response("debug_files", NoAuth, 0, 0, r.result, r.body)
        /\ UNCHANGED <<users, movies, assignments, tokens, inflight, pending, registering>>

FixFilePaths ==
    LET r == fix_file_paths(files)
    IN  /\ files' = r.files
        /\ resp' = Response("fix_file_paths", NoAuth, 0, 0, r.result, r.body)
        /\ UNCHANGED <<users, movies, assignments, tokens, inflight, pending, registering>>

\* The service is restarted in another directory, with NewApp.db and uploads/
\* (both named relative to the working directory) carried along: the absolute
\* paths stored so far name files that are not there any more.
Relocate ==
    /\ \E f \in DOMAIN files : files[f].filepath = "absolute"
    /\ files' = [f \in DOMAIN files |->
                   IF files[f].filepath = "absolute"
                   THEN [files[f] EXCEPT !.filepath = "moved"]
                   ELSE files[f]]
    /\ resp' = NoRequest
    /\ UNCHANGED <<users, movies, assignments, tokens, inflight, pending, registering>>

\* The file handlers that take Depends(authorize).
AuthorizedFileOps ==
    {"upload_movie_files", "get_movie_files", "delete_movie_file", "download_movie_file"}

\* The credentials authorize turns away: a missing or wrong API key, and
\* with the key a missing bearer token or one verify_token rejects.
BadCredentials ==
    {Credentials(api_key, bearer, NoAuth) :
        api_key \in {"missing", "wrong", "valid"}, bearer \in {"none", "rejected"}}

\* A request to a handler behind authorize that authorize turns away: the
\* handler does not run.
Unauthenticated(op, cred) ==
    /\ authorize(cred).result # Pass
    /\ resp' = Response(op, NoAuth, 0, 0, authorize(cred).result, {})
    /\ UNCHANGED <<users, movies, assignments, tokens, inflight, files, pending, registering>>

\* Every payload login can put into a token.
Payloads == [role : Roles, user_id : UserIds]

\* The requests that read or write the rows create_movie writes (users,
\* movies, movie_assignments), each handler run as a whole.
CoreRequests ==
    \/ \E username \in Usernames, role \in RoleInputs : Register(username, role)
    \/ \E username \in Usernames : Login(username)
    \/ \E auth \in Payloads : Expire(auth)
    \/ \E auth \in Payloads, user_id \in UserIds : DeleteUser(auth, user_id)
    \/ \E auth \in Payloads : GetAllMovies(auth)
    \/ \E auth \in Payloads, movie_id \in MovieIds : GetOneMovie(auth, movie_id)
    \/ \E auth \in Payloads, movie_id \in MovieIds, user_id \in UserIds,
          is_assigned \in BOOLEAN :
           AssignMovie(auth, movie_id, user_id, is_assigned)
    \/ \E auth \in Payloads, movie_id \in MovieIds : DeleteMovie(auth, movie_id)

\* The requests that only touch a username or a movie's year and rating.
OtherRequests ==
    \/ \E auth \in Payloads, user_id \in UserIds, upd \in UserUpdates :
           UpdateUser(auth, user_id, upd)
    \/ \E auth \in Payloads, data \in MovieData : GetMovieByYear(auth, data)
    \/ \E auth \in Payloads, data \in MovieData : GetMovieByRating(auth, data)
    \/ \E auth \in Payloads, movie_id \in MovieIds, data \in MovieData :
           UpdateMovie(auth, movie_id, data)

\* Requests served one at a time.
Next ==
    \/ CoreRequests
    \/ OtherRequests
    \/ \E auth \in Payloads, data \in MovieData : CreateMovie(auth, data)

Spec == Init /\ [][Next]_vars

----------------------------------------------------------------------------
\* The requests that write a row the assignment list reads, with the
\* assignment list.

NextAssignments ==
    \/ CoreRequests
    \/ \E auth \in Payloads, data \in MovieData : CreateMovie(auth, data)
    \/ \E auth \in Payloads : GetUserAssignments(auth)

SpecAssignments == Init /\ [][NextAssignments]_vars

----------------------------------------------------------------------------
\* The users section with the two auth requests: every request that reads or
\* writes the users table or a token.

NextUsers ==
    \/ \E username \in Usernames, role \in RoleInputs : Register(username, role)
    \/ \E username \in Usernames : Login(username)
    \/ \E auth \in Payloads : Expire(auth)
    \/ \E auth \in Payloads : GetAllUsers(auth)
    \/ \E auth \in Payloads, user_id \in UserIds : GetUserById(auth, user_id)
    \/ \E auth \in Payloads, user_id \in UserIds, upd \in UserUpdates :
           UpdateUser(auth, user_id, upd)
    \/ \E auth \in Payloads, user_id \in UserIds : DeleteUser(auth, user_id)

SpecUsers == Init /\ [][NextUsers]_vars

----------------------------------------------------------------------------
\* The files section with every request that writes a row the file handlers
\* read (users, movies, movie_assignments, tokens).

FileRequests ==
    \/ \E auth \in Payloads, movie_id \in MovieIds, file \in UploadParts :
           UploadMovieFiles(auth, movie_id, file)
    \/ \E auth \in Payloads, movie_id \in MovieIds : GetMovieFiles(auth, movie_id)
    \/ \E auth \in Payloads, file_id \in FileIds : DeleteMovieFile(auth, file_id)
    \/ \E auth \in Payloads, file_id \in FileIds : DownloadMovieFile(auth, file_id)

NextFiles ==
    \/ \E username \in Usernames, role \in RoleInputs : Register(username, role)
    \/ \E username \in Usernames : Login(username)
    \/ \E auth \in Payloads : Expire(auth)
    \/ \E auth \in Payloads, user_id \in UserIds : DeleteUser(auth, user_id)
    \/ \E auth \in Payloads, data \in MovieData : CreateMovie(auth, data)
    \/ \E auth \in Payloads, movie_id \in MovieIds, user_id \in UserIds,
          is_assigned \in BOOLEAN :
           AssignMovie(auth, movie_id, user_id, is_assigned)
    \/ \E auth \in Payloads, movie_id \in MovieIds : DeleteMovie(auth, movie_id)
    \/ FileRequests

SpecFiles == Init /\ [][NextFiles]_vars

----------------------------------------------------------------------------
\* The files section with the three file requests that take no credentials,
\* the file requests authorize turns away and a restart of the service in
\* another directory.

PublicFileRequests ==
    \/ \E file_id \in FileIds : GetImageFile(file_id)
    \/ DebugFiles
    \/ FixFilePaths

NextPublic ==
    \/ \E username \in Usernames, role \in RoleInputs : Register(username, role)
    \/ \E username \in Usernames : Login(username)
    \/ \E auth \in Payloads, data \in MovieData : CreateMovie(auth, data)
    \/ \E auth \in Payloads, movie_id \in MovieIds : DeleteMovie(auth, movie_id)
    \/ FileRequests
    \/ PublicFileRequests
    \/ Relocate
    \/ \E op \in AuthorizedFileOps, cred \in BadCredentials : Unauthenticated(op, cred)

SpecPublic == Init /\ [][NextPublic]_vars

----------------------------------------------------------------------------
\* Requests served concurrently (FastAPI runs the def handlers on a thread
\* pool).  create_movie commits twice, so other requests run between its
\* two commits; the other handlers commit once.  The requests that touch
\* none of the rows create_movie writes are left out of this specification.

MaxInflight == 1

\* create_movie up to db.commit() of the movie row and db.refresh
CreateMovieBegin(auth, data) ==
    /\ auth \in tokens
    /\ auth.role \in {"super admin", "admin"}
    /\ Cardinality(inflight) < MaxInflight
    /\ NextId(DOMAIN movies) \in MovieIds
    /\ movies' = create_movie_insert(movies, auth, data)
    /\ inflight' = inflight \cup {[movie_id |-> NextId(DOMAIN movies), auth |-> auth]}
    /\ resp' = NoRequest
    /\ UNCHANGED <<users, assignments, tokens, files, pending, registering>>

\* create_movie from the query for the users to its second db.commit()
CreateMovieFinish(req) ==
    /\ req \in inflight
    /\ assignments' = create_movie_assign(users, assignments, req.auth, req.movie_id)
    /\ inflight' = inflight \ {req}
    /\ resp' = Response("create_movie", req.auth, 0, 0, Result(201, "Created"),
                        {req.movie_id})
    /\ UNCHANGED <<users, movies, tokens, files, pending, registering>>

\* The request dies after the first commit (the worker is killed, the
\* database is locked at the second commit): nothing undoes the movie row.
CreateMovieFail(req) ==
    /\ req \in inflight
    /\ inflight' = inflight \ {req}
    /\ resp' = Response("create_movie", req.auth, 0, 0, ServerError, {})
    /\ UNCHANGED <<users, movies, assignments, tokens, files, pending, registering>>

InflightRequests == [movie_id : MovieIds, auth : Payloads]

NextConc ==
    \/ CoreRequests
    \/ \E auth \in Payloads, data \in MovieData : CreateMovieBegin(auth, data)
    \/ \E req \in InflightRequests : CreateMovieFinish(req)
    \/ \E req \in InflightRequests : CreateMovieFail(req)

SpecConc == Init /\ [][NextConc]_vars

----------------------------------------------------------------------------
\* assign_movie served concurrently.  The handler looks the pair up
\* (line 291) and, when no row came back, adds the row and commits
\* (lines 294-302); models.MovieAssignment declares no unique constraint on
\* (movie_id, user_id), and the session holds no lock between the SELECT and
\* the INSERT, so other requests run in between.

MaxPending == 2

AssignRequests == [auth : Payloads, movie_id : MovieIds, user_id : UserIds]

\* assign_movie with is_assigned = true up to the lookup that found no row
AssignMovieBegin(auth, movie_id, user_id) ==
    /\ auth \in tokens
    /\ assign_movie_authorize(users, movies, assignments, auth, movie_id, user_id) = Pass
    /\ ~has_assignment(assignments, movie_id, user_id)
    /\ BagCardinality(pending) < MaxPending
    /\ pending' = pending (+) SetToBag({[auth |-> auth, movie_id |-> movie_id,
                                         user_id |-> user_id]})
    /\ resp' = NoRequest
    /\ UNCHANGED <<users, movies, assignments, tokens, inflight, files, registering>>

\* assign_movie from db.add(new_assignment) to its response
AssignMovieFinish(req) ==
    /\ BagIn(req, pending)
    /\ assignments' = assignments
           (+) SetToBag({Row(req.movie_id, req.user_id, req.auth.user_id)})
    /\ pending' = pending (-) SetToBag({req})
    /\ resp' = Response("assign", req.auth, req.movie_id, req.user_id,
                        Result(201, "Movie assigned to user successfully"), {})
    /\ UNCHANGED <<users, movies, tokens, inflight, files, registering>>

\* The requests that lead to an assign, and the assigns themselves: run as
\* a whole (AssignMovie) or in their two parts.  The requests all carry the
\* one token that is issued.
NextAssign ==
    \/ \E username \in Usernames, role \in RoleInputs : Register(username, role)
    \/ \E username \in Usernames : Login(username)
    \/ \E auth \in Payloads, data \in MovieData : CreateMovie(auth, data)
    \/ \E auth \in Payloads, movie_id \in MovieIds, user_id \in UserIds,
          is_assigned \in BOOLEAN :
           AssignMovie(auth, movie_id, user_id, is_assigned)
    \/ \E auth \in Payloads, movie_id \in MovieIds, user_id \in UserIds :
           AssignMovieBegin(auth, movie_id, user_id)
    \/ \E req \in AssignRequests : AssignMovieFinish(req)

SpecAssign == Init /\ [][NextAssign]_vars

----------------------------------------------------------------------------
\* create_user served concurrently: other requests run between its lookup of
\* the username (line 27) and its commit (line 38).

MaxRegistering == 2

RegisterRequests == [username : Usernames, role : Roles]

\* create_user up to the lookups of the username and the role, both passed
RegisterBegin(username, role) ==
    /\ create_user(users, username, role).result.status = 201
    /\ BagCardinality(registering) < MaxRegistering
    /\ registering' = registering (+) SetToBag({[username |-> username, role |-> role]})
    /\ resp' = NoRequest
    /\ UNCHANGED <<users, movies, assignments, tokens, inflight, files, pending>>

\* create_user from db.add(new_user) to its response
RegisterFinish(req) ==
    LET r == create_user_insert(users, req.username, req.role)
    IN  /\ BagIn(req, registering)
        /\ DOMAIN r.users \subseteq UserIds
        /\ users' = r.users
        /\ registering' = registering (-) SetToBag({req})
        /\ resp' = Response("create_user", NoAuth, 0, 0, r.result, {})
        /\ UNCHANGED <<movies, assignments, tokens, inflight, files, pending>>

\* Every request that writes a username, the registrations run as a whole
\* (Register) or in their two parts.
NextRegister ==
    \/ \E username \in Usernames, role \in RoleInputs : Register(username, role)
    \/ \E username \in Usernames, role \in Roles : RegisterBegin(username, role)
    \/ \E req \in RegisterRequests : RegisterFinish(req)
    \/ \E username \in Usernames : Login(username)
    \/ \E auth \in Payloads : Expire(auth)
    \/ \E auth \in Payloads, user_id \in UserIds, upd \in UserUpdates :
           UpdateUser(auth, user_id, upd)
    \/ \E auth \in Payloads, user_id \in UserIds : DeleteUser(auth, user_id)

SpecRegister == Init /\ [][NextRegister]_vars

----------------------------------------------------------------------------
\* Vocabulary of the properties

\* The movie's creator is a row of users whose role is super admin.
CreatorIsSuperAdmin(movie_id) ==
    /\ ~creator_missing(users, movies, movie_id)
    /\ creator_role(users, movies, movie_id) = "super admin"

\* The movie's creator is a row of users whose role is admin.
CreatorIsAdmin(movie_id) ==
    /\ ~creator_missing(users, movies, movie_id)
    /\ creator_role(users, movies, movie_id) = "admin"

\* How many rows the table holds for the pair.
RowCount(A, movie_id, user_id) ==
    BagCardinality(BagRestrict(A, AssignmentRows(A, movie_id, user_id)))

\* The assignment table holds a row for the pair.
IsAssigned(movie_id, user_id) == RowCount(assignments, movie_id, user_id) >= 1

\* The rows of the assignment table on one movie.
RowsOfMovie(A, movie_id) ==
    BagRestrict(A, {r \in BagToSet(A) : r.movie_id = movie_id})

\* The rule of spec 4.3 for update, delete and assign on a movie.
MovieWriteRule(auth, movie_id) ==
    \/ auth.role = "super admin"
    \/ /\ auth.role = "admin"
       /\ \/ ~CreatorIsSuperAdmin(movie_id)
          \/ IsAssigned(movie_id, auth.user_id)

----------------------------------------------------------------------------
\* C1.  For every existing movie and every requester identity, update_movie
\* and delete_movie are allowed exactly when the requester is a super admin,
\* or is an admin and the movie's creator is not a super admin or the admin
\* holds an assignment on the movie.  For an editor or a viewer both are
\* answered 403 and the movie and its assignments stay as they are.
C1_UpdateDeleteRule ==
    \A auth \in tokens, movie_id \in DOMAIN movies, data \in MovieData :
        LET upd == update_movie(users, movies, assignments, auth, movie_id, data)
            del == delete_movie(users, movies, assignments, auth, movie_id)
        IN  /\ (upd.result.status = 200) <=> MovieWriteRule(auth, movie_id)
            /\ (del.result.status = 204) <=> MovieWriteRule(auth, movie_id)
            /\ auth.role \in {"editor", "viewer"} =>
                   /\ upd.result.status = 403 /\ upd.movies = movies
                   /\ del.result.status = 403 /\ del.movies = movies
                   /\ del.assignments = assignments

\* C1 with the movies whose creator is no longer a row of users left out:
\* what the handlers do implement.
C1_RuleWhereCreatorExists ==
    \A auth \in tokens, movie_id \in DOMAIN movies, data \in MovieData :
        LET upd == update_movie(users, movies, assignments, auth, movie_id, data)
            del == delete_movie(users, movies, assignments, auth, movie_id)
        IN  ~creator_missing(users, movies, movie_id) =>
                /\ (upd.result.status = 200) <=> MovieWriteRule(auth, movie_id)
                /\ (del.result.status = 204) <=> MovieWriteRule(auth, movie_id)

\* C2.  A viewer or an editor reading a movie by id, by year or by rating
\* receives only movies on which the requester holds an assignment.
C2_SingleReadNeedsAssignment ==
    /\ resp.op \in {"get_one_movie", "get_movie_by_year", "get_movie_by_rating"}
    /\ resp.role \in {"viewer", "editor"}
    => \A movie_id \in resp.body : IsAssigned(movie_id, resp.uid)

C4_AdminList ==
    \A auth \in tokens :
        LET listed == get_all_movies(users, movies, assignments, auth)
        IN  /\ auth.role = "admin" =>
                listed = {m \in DOMAIN movies :
                              \/ movies[m].created_by = auth.user_id
                              \/ CreatorIsAdmin(m)
                              \/ IsAssigned(m, auth.user_id)}
            /\ auth.role = "super admin" => listed = DOMAIN movies

\* C4 for the admins whose token still names their own row of users: what
\* the handler does implement.
C4_ListOfRegisteredAdmin ==
    \A auth \in tokens :
        (/\ auth.role = "admin"
         /\ auth.user_id \in DOMAIN users
         /\ users[auth.user_id].role = "admin") =>
            get_all_movies(users, movies, assignments, auth)
                = {m \in DOMAIN movies :
                       \/ movies[m].created_by = auth.user_id
                       \/ CreatorIsAdmin(m)
                       \/ IsAssigned(m, auth.user_id)}

\* The users spec 4.2 has create_movie assign the new movie to.
AutoAssignees(role) ==
    IF role = "super admin"
    THEN {u \in DOMAIN users : users[u].role = "super admin"}
    ELSE {u \in DOMAIN users : users[u].role \in {"admin", "super admin"}}

\* C5.  After a create_movie that succeeded, the rows on the new movie are
\* exactly one per super admin if the creator is a super admin, and one per
\* admin or super admin if the creator is an admin, each with assigned_by the
\* creator's id.  A create_movie by an editor or a viewer is answered 403 and
\* adds no movie and no assignment.
C5_AutoAssignment ==
    [][ /\ (resp'.op = "create_movie" /\ resp'.status = 201) =>
               \A m \in resp'.body :
                   /\ m \in DOMAIN movies' /\ m \notin DOMAIN movies
                   /\ movies'[m].created_by = resp'.uid
                   /\ resp'.role \in {"super admin", "admin"}
                   /\ RowsOfMovie(assignments', m)
                          = SetToBag({Row(m, u, resp'.uid) : u \in AutoAssignees(resp'.role)})
        /\ (resp'.op = "create_movie" /\ resp'.role \in {"editor", "viewer"}) =>
               /\ resp'.status = 403
               /\ movies' = movies
               /\ assignments' = assignments
      ]_vars

\* C5's case: an admin created a movie and it was assigned to two users.
C5_Witness ==
    /\ resp.op = "create_movie"
    /\ resp.status = 201
    /\ resp.role = "admin"
    /\ \E m \in resp.body : BagCardinality(RowsOfMovie(assignments, m)) = 2
    /\ \E u \in DOMAIN users : users[u].role = "super admin"

\* C6.  Movie creation and its auto-assignment batch are atomic: a movie row
\* never becomes visible without the rows of its batch; the rows for the
\* super admins, which are part of either batch, appear in the same step.
C6_CreateIsAtomic ==
    [][ \A m \in DOMAIN movies' \ DOMAIN movies :
            \A u \in UsersWithRole(users, {"super admin"}) :
                RowCount(assignments', m, u) >= 1
      ]_vars

\* C7.  assign_movie, in either direction, is answered 403 for an editor or
\* a viewer; for an admin it is answered 403 when the movie's creator is a
\* super admin and the admin itself holds no assignment on the movie,
\* whatever the (movie, target) pair; in every other case, and always for a
\* super admin, the authorization passes and the request is decided by the
\* state of the pair alone.
C7_AssignAuthorization ==
    \A auth \in tokens, movie_id \in DOMAIN movies, user_id \in DOMAIN users,
       is_assigned \in BOOLEAN :
        \A first \in FirstRows(assignments, movie_id, user_id) :
            LET r == assign_movie(users, movies, assignments, auth,
                                  movie_id, user_id, is_assigned, first)
            IN  IF MovieWriteRule(auth, movie_id)
                THEN r.result.status \in {201, 400}
                ELSE r.result.status = 403

\* C7 with the movies whose creator is no longer a row of users left out.
C7_RuleWhereCreatorExists ==
    \A auth \in tokens, movie_id \in DOMAIN movies, user_id \in DOMAIN users,
       is_assigned \in BOOLEAN :
        \A first \in FirstRows(assignments, movie_id, user_id) :
            LET r == assign_movie(users, movies, assignments, auth,
                                  movie_id, user_id, is_assigned, first)
            IN  ~creator_missing(users, movies, movie_id) =>
                    IF MovieWriteRule(auth, movie_id)
                    THEN r.result.status \in {201, 400}
                    ELSE r.result.status = 403

\* The request got past the authorization of assign_movie: it was answered
\* from the state of the pair.
PassedAuthorization(r) == r.status \in {201, 400}

\* C8.  An authorized assign of (movie, user) is answered with the
\* duplicate-assignment error and leaves the table as it is when the pair
\* exists; otherwise it adds exactly the one row of the pair, with
\* assigned_by the requester's id, and changes no other row.
C8_AssignInsertsOnce ==
    [][ (resp'.op = "assign" /\ PassedAuthorization(resp')) =>
            IF IsAssigned(resp'.movie_id, resp'.user_id)
            THEN /\ resp'.status = 400
                 /\ resp'.detail = "Movie already assigned to user"
                 /\ assignments' = assignments
            ELSE /\ resp'.status = 201
                 /\ assignments' = assignments
                        (+) SetToBag({Row(resp'.movie_id, resp'.user_id, resp'.uid)})
      ]_vars

\* C8's case: an assign went through next to a row that was there before,
\* made by somebody other than the target.
C8_Witness ==
    /\ resp.op = "assign"
    /\ resp.status = 201
    /\ resp.uid # resp.user_id
    /\ CopiesIn(Row(resp.movie_id, resp.user_id, resp.uid), assignments) = 1
    /\ BagCardinality(assignments) >= 2

\* C9.  For a pair that is not assigned, an authorized assign followed by an
\* authorized unassign of the pair leaves the pair unassigned and the table
\* equal to what it was; an unassign of an absent pair never succeeds, and
\* one that is authorized is answered with the not-assigned error.
C9_UnassignUndoesAssign ==
    \A auth \in tokens, movie_id \in MovieIds, user_id \in UserIds :
        ~IsAssigned(movie_id, user_id) =>
            LET none == Row(movie_id, user_id, 0)
                a == assign_movie(users, movies, assignments, auth,
                                  movie_id, user_id, TRUE, none)
                d == assign_movie(users, movies, assignments, auth,
                                  movie_id, user_id, FALSE, none)
            IN  /\ d.result.status # 201
                /\ d.assignments = assignments
                /\ PassedAuthorization(d.result) =>
                       d.result = Result(400, "Movie not assigned to user")
                /\ a.result.status = 201 =>
                       /\ \A undo \in tokens :
                              \A first \in FirstRows(a.assignments, movie_id, user_id) :
                                  LET u == assign_movie(users, movies, a.assignments, undo,
                                                        movie_id, user_id, FALSE, first)
                                  IN  /\ undo = auth => u.result.status = 201
                                      /\ u.result.status = 201 =>
                                             /\ u.assignments = assignments
                                             /\ ~has_assignment(u.assignments, movie_id, user_id)

\* C9's case: a viewer or editor, who gets no automatic assignment, was
\* assigned and then unassigned, and the pair is gone.
C9_Witness ==
    /\ resp.op = "unassign"
    /\ resp.status = 201
    /\ resp.user_id \in DOMAIN users
    /\ users[resp.user_id].role \in {"viewer", "editor"}
    /\ ~IsAssigned(resp.movie_id, resp.user_id)

\* C10.  With the requests served one at a time, the assignment table holds
\* at most one row for each (movie_id, user_id) pair.
C10_OneRowPerPair ==
    \A movie_id \in MovieIds, user_id \in UserIds :
        RowCount(assignments, movie_id, user_id) <= 1

\* C10's case: an assign of a pair that has its row was turned down, and
\* the pair still has one row.
C10_Witness ==
    /\ resp.op = "assign"
    /\ resp.status = 400
    /\ RowCount(assignments, resp.movie_id, resp.user_id) = 1

\* C11.  When two authorized assigns of the same (movie, user) pair run
\* concurrently, one succeeds and the other is answered with the
\* duplicate-assignment error: every assign that is answered with success
\* leaves exactly one row for its pair.
C11_ConcurrentAssignOnce ==
    [][ (resp'.op = "assign" /\ resp'.status = 201) =>
            RowCount(assignments', resp'.movie_id, resp'.user_id) = 1
      ]_vars

\* The rule of spec 4.3 for reading the record of an existing user.
UserReadRule(auth, user_id) ==
    \/ auth.role = "super admin"
    \/ auth.role = "admin" /\ users[user_id].role # "super admin"
    \/ auth.role = "editor" /\ users[user_id].role \in {"viewer", "editor"}
    \/ /\ auth.role = "viewer"
       /\ users[user_id].role = "viewer"
       /\ user_id = auth.user_id

\* C12.  get_user_by_id on an existing user is allowed exactly when the
\* requester is a super admin, or an admin and the target is no super admin,
\* or an editor and the target is a viewer or an editor, or a viewer and the
\* target is the requester's own viewer record: the rule holds for every
\* token and every existing user, and no viewer was ever handed the record
\* of another user.
C12_SingleUserReadRule ==
    /\ \A auth \in tokens, user_id \in DOMAIN users :
           (get_user_by_id(users, auth, user_id).result.status = 200)
               <=> UserReadRule(auth, user_id)
    /\ (resp.op = "get_user_by_id" /\ resp.role = "viewer") =>
           resp.body \subseteq {resp.uid}

\* update_user and delete_user are denied to this requester on this target.
UserWriteDenied(auth, user_id) ==
    \/ auth.role \in {"editor", "viewer"}
    \/ auth.role = "admin" /\ users[user_id].role = "super admin"

\* C13.  On an existing target, update_user and delete_user are answered 403
\* exactly for an editor, a viewer, and an admin whose target is a super
\* admin, and then leave the users and the assignments as they are.  In every
\* other case (a super admin, an admin on a target that is no super admin)
\* the request is let through: delete_user removes the target, and
\* update_user with a body that sets a free username, or nothing, succeeds.
C13_UserMutationRule ==
    \A auth \in tokens, user_id \in DOMAIN users, upd \in UserUpdates :
        LET u == update_user(users, auth, user_id, upd)
            d == delete_user(users, assignments, auth, user_id)
            free == \A other \in DOMAIN users \ {user_id} :
                        users[other].username # upd.username
        IN  /\ (u.result.status = 403) <=> UserWriteDenied(auth, user_id)
            /\ (d.result.status = 403) <=> UserWriteDenied(auth, user_id)
            /\ UserWriteDenied(auth, user_id) =>
                   /\ u.users = users
                   /\ d.users = users
                   /\ d.assignments = assignments
            /\ ~UserWriteDenied(auth, user_id) =>
                   /\ d.result.status = 204
                   /\ user_id \notin DOMAIN d.users
                   /\ (upd.role = Unset /\ free) =>
                          /\ u.result.status = 200
                          /\ upd.username # 0 => u.users[user_id].username = upd.username

\* C13's case: an admin tried to delete a super admin who holds an
\* assignment, was turned down, and the super admin and the row are there.
C13_Witness ==
    /\ resp.op = "delete_user"
    /\ resp.status = 403
    /\ resp.role = "admin"
    /\ resp.user_id \in DOMAIN users
    /\ users[resp.user_id].role = "super admin"
    /\ \E m \in DOMAIN movies : IsAssigned(m, resp.user_id)

\* C14.  get_all_users returns the own record to a viewer, the viewers and
\* editors to an editor, the users that are no super admin to an admin and
\* every user to a super admin; and for every requester a user is in the list
\* exactly when the single read of that user by the requester is allowed.
C14_UserListMatchesSingleRead ==
    \A auth \in tokens :
        /\ get_all_users(users, auth) = {u \in DOMAIN users : UserReadRule(auth, u)}
        /\ \A u \in DOMAIN users :
               u \in get_all_users(users, auth)
                   <=> get_user_by_id(users, auth, u).result.status = 200

\* C14's first sentence alone, the contents of the list: what get_all_users
\* does implement.
C14_UserListRule ==
    /\ \A auth \in tokens :
           get_all_users(users, auth) = {u \in DOMAIN users : UserReadRule(auth, u)}
    /\ resp.op = "get_all_users" =>
           resp.body = {u \in DOMAIN users :
                            UserReadRule(Payload(resp.role, resp.uid), u)}

\* The four file operations on a movie and on a file of it by one requester:
\* whether each was let through (an upload that is let through is answered
\* from its file type, 201 or 400).
UploadAllowed(auth, movie_id, file) ==
    upload_movie_files(users, movies, assignments, files, auth, movie_id, file)
        .result.status \in {201, 400}

ListFilesAllowed(auth, movie_id) ==
    get_movie_files(users, movies, assignments, files, auth, movie_id).result.status = 200

DeleteFileAllowed(auth, file_id) ==
    delete_movie_file(users, movies, assignments, files, auth, file_id).result.status = 204

DownloadAllowed(auth, file_id) ==
    download_movie_file(users, movies, assignments, files, auth, file_id).status = 200

\* C15.  For a viewer, upload to an existing movie is always denied; listing
\* the files of a movie, deleting a file and downloading a file are allowed
\* exactly when the viewer holds an assignment on the parent movie.
C15_ViewerFileRule ==
    \A auth \in tokens :
        auth.role = "viewer" =>
            /\ \A movie_id \in DOMAIN movies :
                   /\ \A file \in Uploads :
                          upload_movie_files(users, movies, assignments, files,
                                             auth, movie_id, file).result.status = 403
                   /\ ListFilesAllowed(auth, movie_id) <=> IsAssigned(movie_id, auth.user_id)
            /\ \A file_id \in DOMAIN files :
                   /\ DeleteFileAllowed(auth, file_id)
                          <=> IsAssigned(files[file_id].movie_id, auth.user_id)
                   /\ DownloadAllowed(auth, file_id)
                          <=> IsAssigned(files[file_id].movie_id, auth.user_id)

\* C15 without the delete: what the handlers do implement for a viewer
\* (delete_movie_file is answered 403 whatever the assignment).
C15_ViewerRuleButDelete ==
    \A auth \in tokens :
        auth.role = "viewer" =>
            /\ \A movie_id \in DOMAIN movies :
                   /\ \A file \in Uploads : ~UploadAllowed(auth, movie_id, file)
                   /\ ListFilesAllowed(auth, movie_id) <=> IsAssigned(movie_id, auth.user_id)
            /\ \A file_id \in DOMAIN files :
                   /\ ~DeleteFileAllowed(auth, file_id)
                   /\ DownloadAllowed(auth, file_id)
                          <=> IsAssigned(files[file_id].movie_id, auth.user_id)

\* C16.  For an editor, upload, list files, delete file and download file
\* are each allowed exactly when the editor holds an assignment on the parent
\* movie.
C16_EditorFileRule ==
    \A auth \in tokens :
        auth.role = "editor" =>
            /\ \A movie_id \in DOMAIN movies :
                   /\ \A file \in Uploads :
                          UploadAllowed(auth, movie_id, file)
                              <=> IsAssigned(movie_id, auth.user_id)
                   /\ ListFilesAllowed(auth, movie_id) <=> IsAssigned(movie_id, auth.user_id)
            /\ \A file_id \in DOMAIN files :
                   /\ DeleteFileAllowed(auth, file_id)
                          <=> IsAssigned(files[file_id].movie_id, auth.user_id)
                   /\ DownloadAllowed(auth, file_id)
                          <=> IsAssigned(files[file_id].movie_id, auth.user_id)

\* C16 without the list: what the handlers do implement for an editor
\* (get_movie_files has no branch for an editor).
C16_EditorRuleButList ==
    \A auth \in tokens :
        auth.role = "editor" =>
            /\ \A movie_id \in DOMAIN movies :
                   /\ \A file \in Uploads :
                          UploadAllowed(auth, movie_id, file)
                              <=> IsAssigned(movie_id, auth.user_id)
                   /\ ListFilesAllowed(auth, movie_id)
            /\ \A file_id \in DOMAIN files :
                   /\ DeleteFileAllowed(auth, file_id)
                          <=> IsAssigned(files[file_id].movie_id, auth.user_id)
                   /\ DownloadAllowed(auth, file_id)
                          <=> IsAssigned(files[file_id].movie_id, auth.user_id)

\* C17.  For an admin, each of upload, list files, delete file and download
\* file on an existing movie and file is denied (403) exactly when the
\* movie's creator is a super admin and the admin holds no assignment on the
\* movie, and is allowed otherwise; for a super admin all four are allowed.
C17_AdminFileRule ==
    \A auth \in tokens :
        auth.role \in {"admin", "super admin"} =>
            /\ \A movie_id \in DOMAIN movies :
                   /\ \A file \in Uploads :
                          UploadAllowed(auth, movie_id, file)
                              <=> MovieWriteRule(auth, movie_id)
                   /\ ListFilesAllowed(auth, movie_id) <=> MovieWriteRule(auth, movie_id)
            /\ \A file_id \in DOMAIN files :
                   files[file_id].movie_id \in DOMAIN movies =>
                       /\ DeleteFileAllowed(auth, file_id)
                              <=> MovieWriteRule(auth, files[file_id].movie_id)
                       /\ DownloadAllowed(auth, file_id)
                              <=> MovieWriteRule(auth, files[file_id].movie_id)

\* C17 with the movies whose creator is no longer a row of users left out.
C17_RuleWhereCreatorExists ==
    \A auth \in tokens :
        auth.role \in {"admin", "super admin"} =>
            /\ \A movie_id \in DOMAIN movies :
                   ~creator_missing(users, movies, movie_id) =>
                       /\ \A file \in Uploads :
                              UploadAllowed(auth, movie_id, file)
                                  <=> MovieWriteRule(auth, movie_id)
                       /\ ListFilesAllowed(auth, movie_id) <=> MovieWriteRule(auth, movie_id)
            /\ \A file_id \in DOMAIN files :
                   (/\ files[file_id].movie_id \in DOMAIN movies
                    /\ ~creator_missing(users, movies, files[file_id].movie_id)) =>
                       /\ DeleteFileAllowed(auth, file_id)
                              <=> MovieWriteRule(auth, files[file_id].movie_id)
                       /\ DownloadAllowed(auth, file_id)
                              <=> MovieWriteRule(auth, files[file_id].movie_id)

\* The step removed a copy of the row from the assignment table.
RowRemoved(r) == CopiesIn(r, assignments') < CopiesIn(r, assignments)

\* The step answered a request that spec 3 lets remove the row: an unassign
\* of its pair, the deletion of its movie, or the deletion of its assignee.
RemovalByEndpoint(r) ==
    \/ /\ resp'.op = "unassign" /\ resp'.status = 201
       /\ resp'.movie_id = r.movie_id /\ resp'.user_id = r.user_id
    \/ /\ resp'.op = "delete_movie" /\ resp'.status = 204
       /\ resp'.movie_id = r.movie_id
    \/ /\ resp'.op = "delete_user" /\ resp'.status = 204
       /\ resp'.user_id = r.user_id

\* C18.  An assignment row is removed only by an unassign of its pair, by
\* the deletion of its movie or by the deletion of its assignee: the deletion
\* of a user removes every row in which that user is the assignee and leaves
\* every other row, the rows that user made included, in place.
C18_RemovedOnlyWithEndpoint ==
    [][ /\ \A r \in BagToSet(assignments) : RowRemoved(r) => RemovalByEndpoint(r)
        /\ (resp'.op = "delete_user" /\ resp'.status = 204) =>
               \A r \in BagToSet(assignments') : r.user_id # resp'.user_id
      ]_vars

\* C18 with the second cascade of models.Users counted in: a row also goes
\* with the user recorded as its assigned_by.  What the code does implement.
C18_RemovedWithEndpointOrAssigner ==
    [][ /\ \A r \in BagToSet(assignments) :
               RowRemoved(r) =>
                   \/ RemovalByEndpoint(r)
                   \/ /\ resp'.op = "delete_user" /\ resp'.status = 204
                      /\ resp'.user_id = r.assigned_by
        /\ (resp'.op = "delete_user" /\ resp'.status = 204) =>
               \A r \in BagToSet(assignments') :
                   r.user_id # resp'.user_id /\ r.assigned_by # resp'.user_id
      ]_vars

\* The token belongs to a user who is registered with the token's role.
Registered(auth) ==
    /\ auth.user_id \in DOMAIN users
    /\ users[auth.user_id].role = auth.role

\* The users table as it is, and as it is after one more admin registered.
WithOneMoreAdmin == {users} \cup {create_user(users, n, "admin").users : n \in Usernames}

\* C19.  From every reachable state: a registered super admin S creates a
\* movie M2; an admin A2, registered before or after, holds no assignment on
\* M2 and A2's delete of M2 is answered 403 with M2 and its assignments left
\* in place; after S assigned M2 to A2, A2's delete of M2 is answered 204 and
\* removes M2 and every assignment on it.  The same holds of every movie of a
\* registered super admin that exists: a registered admin's delete is turned
\* down without an assignment and removes the movie and its rows with one.
C19_AdminDeleteAfterAssign ==
    /\ \A S \in tokens, data \in MovieData :
           (S.role = "super admin" /\ Registered(S)) =>
               LET c == create_movie(users, movies, assignments, S, data)
                   m == NextId(DOMAIN movies)
               IN  \A U \in WithOneMoreAdmin :
                       \A a \in UsersWithRole(U, {"admin"}) :
                           LET A2 == Payload("admin", a)
                               d1 == delete_movie(U, c.movies, c.assignments, A2, m)
                               asg == assign_movie(U, c.movies, c.assignments, S,
                                                   m, a, TRUE, Row(m, a, 0))
                               d2 == delete_movie(U, c.movies, asg.assignments, A2, m)
                           IN  /\ c.result.status = 201
                               /\ ~has_assignment(c.assignments, m, a)
                               /\ d1.result.status = 403
                               /\ d1.movies = c.movies
                               /\ d1.assignments = c.assignments
                               /\ asg.result.status = 201
                               /\ d2.result.status = 204
                               /\ d2.movies = movies
                               /\ RowsOfMovie(d2.assignments, m) = EmptyBag
    /\ \A m \in DOMAIN movies, a \in UsersWithRole(users, {"admin"}) :
           CreatorIsSuperAdmin(m) =>
               LET d == delete_movie(users, movies, assignments, Payload("admin", a), m)
               IN  IF IsAssigned(m, a)
                   THEN /\ d.result.status = 204
                        /\ m \notin DOMAIN d.movies
                        /\ RowsOfMovie(d.assignments, m) = EmptyBag
                   ELSE /\ d.result.status = 403
                        /\ d.movies = movies
                        /\ d.assignments = assignments

\* C19's case: a super admin has just assigned a movie of a registered super
\* admin to a registered admin, whose delete of the movie now goes through.
C19_Witness ==
    /\ resp.op = "assign"
    /\ resp.status = 201
    /\ resp.role = "super admin"
    /\ resp.user_id \in UsersWithRole(users, {"admin"})
    /\ resp.movie_id \in DOMAIN movies
    /\ CreatorIsSuperAdmin(resp.movie_id)
    /\ delete_movie(users, movies, assignments, Payload("admin", resp.user_id),
                    resp.movie_id).result.status = 204

\* An upload that passes the check of its file type.
ValidUploads ==
    {file \in Uploads : IF file.image THEN file.ext \in ALLOWED_IMAGE_EXTENSIONS
                                     ELSE file.ext \in ALLOWED_DOCUMENT_EXTENSIONS}

\* What the editor E may do on movie m once the tables are M and A: read m,
\* upload to m and download what was uploaded, but neither update nor delete.
EditorRightsOnAssigned(M, A, E, m) ==
    /\ get_one_movie(M, E, m).result.status = 200
    /\ \A file \in ValidUploads :
           LET up == upload_movie_files(users, M, A, files, E, m, file)
           IN  /\ up.result.status = 201
               /\ \A f \in up.body :
                      download_movie_file(users, M, A, up.files, E, f).status = 200
    /\ \A data \in MovieData :
           /\ update_movie(users, M, A, E, m, data).result.status = 403
           /\ update_movie(users, M, A, E, m, data).movies = M
    /\ delete_movie(users, M, A, E, m).result.status = 403
    /\ delete_movie(users, M, A, E, m).movies = M

\* C20.  From every reachable state: a registered admin A creates a movie M;
\* an editor E, who holds no assignment on M, requests M and is denied; after
\* A assigned M to E, E reads M, uploads to M and downloads M's files, while
\* E's update and delete of M are still answered 403.
C20_EditorAfterAssign ==
    \A A \in tokens, data \in MovieData :
        (A.role = "admin" /\ Registered(A)) =>
            LET c == create_movie(users, movies, assignments, A, data)
                m == NextId(DOMAIN movies)
            IN  \A e \in UsersWithRole(users, {"editor"}) :
                    LET E == Payload("editor", e)
                        asg == assign_movie(users, c.movies, c.assignments, A,
                                            m, e, TRUE, Row(m, e, 0))
                    IN  /\ c.result.status = 201
                        /\ ~has_assignment(c.assignments, m, e)
                        /\ get_one_movie(c.movies, E, m).result.status = 403
                        /\ asg.result.status = 201
                        /\ EditorRightsOnAssigned(c.movies, asg.assignments, E, m)

\* C20 from the assign on: what the handlers do implement.
C20_AfterAssignAlone ==
    \A A \in tokens, data \in MovieData :
        (A.role = "admin" /\ Registered(A)) =>
            LET c == create_movie(users, movies, assignments, A, data)
                m == NextId(DOMAIN movies)
            IN  \A e \in UsersWithRole(users, {"editor"}) :
                    LET E == Payload("editor", e)
                        asg == assign_movie(users, c.movies, c.assignments, A,
                                            m, e, TRUE, Row(m, e, 0))
                    IN  /\ c.result.status = 201
                        /\ ~has_assignment(c.assignments, m, e)
                        /\ asg.result.status = 201
                        /\ EditorRightsOnAssigned(c.movies, asg.assignments, E, m)

\* Role names a signed payload may carry that init_db.py does not seed.
UnknownRoles == RoleInputs \ Roles

\* The identity gets nothing out of the handlers: no list entry, no record,
\* no file, and no write goes through.
NothingFor(auth) ==
    /\ get_all_users(users, auth) = {}
    /\ get_all_movies(users, movies, assignments, auth) = {}
    /\ get_user_assignments_query(users, movies, assignments, auth) = {}
    /\ \A user_id \in DOMAIN users :
           /\ get_user_by_id(users, auth, user_id).result.status # 200
           /\ delete_user(users, assignments, auth, user_id).users = users
    /\ \A movie_id \in DOMAIN movies :
           /\ get_one_movie(movies, auth, movie_id).result.status # 200
           /\ get_movie_files(users, movies, assignments, files, auth, movie_id)
                  .result.status # 200
           /\ delete_movie(users, movies, assignments, auth, movie_id).movies = movies
           /\ \A file \in Uploads :
                  upload_movie_files(users, movies, assignments, files, auth, movie_id, file)
                      .files = files
    /\ \A file_id \in DOMAIN files :
           /\ delete_movie_file(users, movies, assignments, files, auth, file_id).files = files
           /\ download_movie_file(users, movies, assignments, files, auth, file_id)
                  .status # 200
    /\ \A data \in MovieData :
           create_movie(users, movies, assignments, auth, data).movies = movies

\* C21.  An identity whose role name is none of the four seeded roles is
\* rejected by authorize, before any handler decides: no operation returns
\* data to it or writes for it.
C21_UnknownRoleRejected ==
    \A role \in UnknownRoles, user_id \in UserIds :
        LET a == authorize(Credentials("valid", "accepted", Payload(role, user_id)))
        IN  \/ a.result # Pass
            \/ NothingFor(a.auth)

\* What stands between such an identity and the handlers: login reads the
\* role name from the roles table, so every token it issued carries one of
\* the four seeded names.
C21_LoginIssuesSeededRoles == \A auth \in tokens : auth.role \in Roles

\* Some user other than user_id goes by the username.
UsernameTaken(username, user_id) ==
    \E u \in DOMAIN users \ {user_id} : users[u].username = username

\* C22.  No two users have the same username, also with registrations served
\* concurrently: a register of a username in use is answered 400 and adds no
\* user, update_user does not rename a user to a username in use, and of two
\* registrations of one username that both passed the lookup the second to
\* commit fails and adds no user.
C22_UsernamesUnique ==
    /\ \A u1 \in DOMAIN users, u2 \in DOMAIN users :
           u1 # u2 => users[u1].username # users[u2].username
    /\ \A username \in Usernames, role \in RoleInputs :
           UsernameTaken(username, 0) =>
               /\ create_user(users, username, role)
                      = [result |-> Result(400, "Username already exists"), users |-> users]
               /\ create_user_insert(users, username, role).result.status # 201
               /\ create_user_insert(users, username, role).users = users
    /\ \A auth \in tokens, user_id \in DOMAIN users, upd \in UserUpdates :
           UsernameTaken(upd.username, user_id) =>
               /\ update_user(users, auth, user_id, upd).result.status # 200
               /\ update_user(users, auth, user_id, upd).users = users

\* C22's case: of two registrations of one username in flight, one has
\* committed and the other was just turned down at its commit.
C22_Witness ==
    /\ resp.op = "create_user"
    /\ resp.status = 500
    /\ DOMAIN users # {}
    /\ registering = EmptyBag

\* C23.  A user's role is fixed at registration: no step changes the role of
\* a user that stays, a new user comes from a register that succeeded with
\* one of the four seeded roles, no update_user, with or without a role
\* field, returns a table with a role changed, and a register with a role
\* name that is not seeded is answered 400 and creates no user; the error is
\* the invalid-role one whenever the username is free (create_user looks the
\* username up first, and reports a username in use before it reads the role).
C23_RoleFixedAtRegistration ==
    [][ /\ \A u \in DOMAIN users \cap DOMAIN users' : users'[u].role = users[u].role
        /\ \A u \in DOMAIN users' \ DOMAIN users :
               /\ resp'.op = "create_user"
               /\ resp'.status = 201
               /\ users'[u].role \in Roles
        /\ \A auth \in tokens, user_id \in DOMAIN users, upd \in UserUpdates :
               LET r == update_user(users, auth, user_id, upd)
               IN  /\ DOMAIN r.users = DOMAIN users
                   /\ \A u \in DOMAIN users : r.users[u].role = users[u].role
        /\ \A username \in Usernames, role \in UnknownRoles :
               LET r == create_user(users, username, role)
               IN  /\ r.result.status = 400
                   /\ r.users = users
                   /\ ~UsernameTaken(username, 0) => r.result.detail = "Invalid role"
      ]_vars

\* C23's case: an update_user that supplied a role for the only user there
\* is, a super admin, has failed, and the user is a super admin still.
C23_Witness ==
    /\ resp.op = "update_user"
    /\ resp.status = 500
    /\ DOMAIN users = {resp.user_id}
    /\ users[resp.user_id].role = "super admin"

\* The assignments an admin or a super admin is to be shown.
ShownTo(auth) ==
    {r \in BagToSet(assignments) :
        \/ auth.role = "super admin"
        \/ users[r.user_id].role # "super admin"
        \/ movies[r.movie_id].created_by = auth.user_id
        \/ r.assigned_by = auth.user_id}

\* C24.  The assignment list answers an admin with exactly the assignments
\* whose assignee is not a super admin, whose movie the admin created or that
\* the admin made, and a super admin with every assignment.
C24_AssignmentList ==
    [][ (resp'.op = "get_user_assignments" /\ resp'.role \in {"admin", "super admin"})
          => /\ resp'.status = 200
             /\ ShownTo(Payload(resp'.role, resp'.uid)) # {} => resp'.body # {}
      ]_vars

\* C24 for the rows the handler selects before it builds its answer: the
\* query selects exactly the assignments of the rule.
C24_QuerySelectsTheRule ==
    \A auth \in tokens :
        auth.role \in {"admin", "super admin"}
            => get_user_assignments_query(users, movies, assignments, auth) = ShownTo(auth)

\* The answer to an upload of file to movie_id by auth follows the
\* classification: an image type with an image extension makes an "images"
\* record, another type with a document extension a "documents" record, and
\* anything else is answered 400 with an invalid-file-type error and leaves
\* the file records as they are.
Classified(auth, movie_id, file) ==
    LET r == upload_movie_files(users, movies, assignments, files, auth, movie_id, file)
        accepted(filetype) ==
            /\ r.result.status = 201
            /\ DOMAIN r.files = DOMAIN files \cup r.body
            /\ \A f \in DOMAIN files : r.files[f] = files[f]
            /\ \A f \in r.body : /\ f \notin DOMAIN files
                                  /\ r.files[f].movie_id = movie_id
                                  /\ r.files[f].filetype = filetype
    IN  IF file.image /\ file.ext \in ALLOWED_IMAGE_EXTENSIONS
        THEN accepted("images")
        ELSE IF ~file.image /\ file.ext \in ALLOWED_DOCUMENT_EXTENSIONS
        THEN accepted("documents")
        ELSE /\ r.result.status = 400
             /\ r.result.detail \in {"Invalid image file type", "Invalid document file type"}
             /\ r.files = files

PassesAuthorization(auth, movie_id) ==
    upload_movie_files_authorize(users, movies, assignments, auth, movie_id) = Pass

\* C25.  Every upload that passes authorization is classified by its content
\* type and extension: accepted as an image, accepted as a document, or
\* refused with the unsupported-file-type error and no file record.
C25_UploadClassified ==
    \A auth \in tokens, movie_id \in MovieIds, file \in UploadParts :
        PassesAuthorization(auth, movie_id) => Classified(auth, movie_id, file)

\* C25 for the uploads whose file part states a content type.
C25_TypedUploadClassified ==
    \A auth \in tokens, movie_id \in MovieIds, file \in Uploads :
        PassesAuthorization(auth, movie_id) => Classified(auth, movie_id, file)

\* C26.  Every file record belongs to an existing movie.
C26_FilesBelongToMovies ==
    \A f \in DOMAIN files : files[f].movie_id \in DOMAIN movies

\* C26 continued: a file record whose movie is gone cannot be deleted by any
\* requester, whatever the role.
C26_OrphanCannotBeDeleted ==
    \A f \in DOMAIN files, auth \in Payloads :
        files[f].movie_id \notin DOMAIN movies
            => LET r == delete_movie_file(users, movies, assignments, files, auth, f)
               IN  r.result.status = 404 /\ r.files = files

\* C27.  Every assignment row refers to an existing movie and to an existing
\* user, and an assign for a movie or a user that does not exist adds
\* nothing and is answered not-found to every requester allowed to assign.
C27_AssignmentsRefer ==
    /\ \A r \in BagToSet(assignments) :
           r.movie_id \in DOMAIN movies /\ r.user_id \in DOMAIN users
    /\ \A auth \in tokens, movie_id \in MovieIds, user_id \in UserIds :
           (movie_id \notin DOMAIN movies \/ user_id \notin DOMAIN users)
               => LET r == assign_movie(users, movies, assignments, auth, movie_id,
                                        user_id, TRUE, Row(movie_id, user_id, 0))
                  IN  /\ r.assignments = assignments
                      /\ r.result.status \in {403, 404}
                      /\ auth.role \in {"super admin", "admin"} => r.result.status = 404

\* C27's case: a delete_user has removed the user who created a movie that
\* is still there, a user the movie was auto-assigned to.
C27_Witness ==
    /\ resp.op = "delete_user"
    /\ resp.status = 204
    /\ resp.user_id \notin DOMAIN users
    /\ \E m \in DOMAIN movies : movies[m].created_by = resp.user_id

\* C28.  Every movie's created_by refers to an existing user, so that the
\* creator-role check of update_movie, delete_movie, assign_movie and the
\* file operations is defined for every movie.
C28_CreatorExists ==
    \A m \in DOMAIN movies : ~creator_missing(users, movies, m)

\* C28 continued: an admin's update of a movie whose creator is missing is
\* always answered with a server error.
C28_AdminUpdateFailsWithoutCreator ==
    \A auth \in tokens, m \in DOMAIN movies, data \in MovieData :
        (auth.role = "admin" /\ creator_missing(users, movies, m))
            => update_movie(users, movies, assignments, auth, m, data).result = ServerError

\* The requests of the files section.
FileOps ==
    AuthorizedFileOps \cup {"get_image_file", "debug_files", "fix_file_paths"}

\* C29.  A file request that carries no verified identity is given no file
\* content and no file record, and changes no file record.
C29_FileRequestsNeedIdentity ==
    [][ (resp'.op \in FileOps /\ resp'.role = "none")
          => /\ resp'.status \in 200..299 => resp'.body = {}
             /\ files' = files
      ]_vars

\* C29 for the four file handlers behind authorize: without a verified
\* identity they answer 401 or 403.
C29_AuthorizedFileRequestsRefuse ==
    [][ (resp'.op \in AuthorizedFileOps /\ resp'.role = "none")
          => resp'.status \in {401, 403} /\ files' = files
      ]_vars

\* The requests that read or list.
ReadOps ==
    {"login", "get_all_users", "get_user_by_id", "get_all_movies", "get_user_assignments",
     "get_one_movie", "get_movie_by_year", "get_movie_by_rating", "get_movie_files",
     "download_movie_file", "get_image_file", "debug_files"}

\* C30.  A request that ends in an error, and every read or list request,
\* leaves the users, movies, assignments and file records as they were.
C30_ErrorsAndReadsChangeNothing ==
    [][ (resp'.status >= 400 \/ resp'.op \in ReadOps)
          => UNCHANGED <<users, movies, assignments, files>>
      ]_vars

\* C30 without get_image_file among the reads.
C30_AllButImageRead ==
    [][ (resp'.status >= 400 \/ resp'.op \in ReadOps \ {"get_image_file"})
          => UNCHANGED <<users, movies, assignments, files>>
      ]_vars

====
